---- MODULE Spec2Model ----
(***************************************************************************)
(* A model of the Shavian pangram solver (src/shavian_pangram.py): the     *)
(* lexicon loader, the rarity-ordered trie index built by build_trie, the  *)
(* starter-word handling of main, and the backtracking search of           *)
(* _search / _find_words_from_root / _search_trie, stepped call by call    *)
(* over an explicit call stack.                                            *)
(*                                                                         *)
(* Strings are sequences of code points.  A Python None is the empty       *)
(* tuple and a present optional value x is <<x>>.                          *)
(***************************************************************************)
EXTENDS Integers, Sequences, FiniteSets, Bags, TLC

(***************************************************************************)
(* Bounds of the model.                                                    *)
(***************************************************************************)
\* The default alphabet of the program has 48 letters (range(0x10450,
\* 0x10480)); the model's default alphabet is its first NumLetters letters.
NumLetters == 3
\* Longest --letters argument drawn.
MaxTargetLen == 3
\* Longest --starter-words argument drawn.
MaxStarterLen == 2
\* Largest --max argument drawn (None and 0..MaxCap).
MaxCap == 2

(***************************************************************************)
(* Code points.                                                            *)
(***************************************************************************)
\* chr(0x10450), the first letter of the Shavian block.
ShawFirst == 66640
\* The characters of the bracketed anagram slot, '[' + ' / '.join(...) + ']'.
LBracket == 91
RBracket == 93
Slash == 47
Space == 32

Peep == ShawFirst
Tot == ShawFirst + 1
Kick == ShawFirst + 2

None == <<>>
Some(x) == <<x>>

\* ''.join(chr(i) for i in range(0x10450, 0x10480)), cut to NumLetters letters.
DefaultLetters == [i \in 1..NumLetters |-> ShawFirst + i - 1]

(***************************************************************************)
(* Sequence helpers standing for Python built-ins.                         *)
(***************************************************************************)
Range(s) == {s[i] : i \in DOMAIN s}

RemoveAt(s, i) == SubSeq(s, 1, i - 1) \o SubSeq(s, i + 1, Len(s))

\* list.reverse()
Reverse(s) == [i \in 1..Len(s) |-> s[Len(s) + 1 - i]]

\* list.index(x) for x in the list: the first position holding x.
IndexOf(s, x) == CHOOSE i \in DOMAIN s : s[i] = x /\ \A j \in 1..(i - 1) : s[j] # x

\* sorted(items, key=...): a stable sort of items by the parallel list ranks.
RECURSIVE StableSort(_, _)
StableSort(items, ranks) ==
    IF items = <<>> THEN <<>>
    ELSE LET i == CHOOSE k \in DOMAIN ranks :
                     /\ \A j \in DOMAIN ranks : ranks[k] <= ranks[j]
                     /\ \A j \in 1..(k - 1) : ranks[j] # ranks[k]
         IN  <<items[i]>> \o StableSort(RemoveAt(items, i), RemoveAt(ranks, i))

\* str < str: comparison by code points, a proper prefix first.
RECURSIVE StrLess(_, _)
StrLess(u, v) ==
    IF v = <<>> THEN FALSE
    ELSE IF u = <<>> THEN TRUE
    ELSE IF u[1] # v[1] THEN u[1] < v[1]
    ELSE StrLess(Tail(u), Tail(v))

\* sorted(words) for a set of strings.
RECURSIVE SortedStrings(_)
SortedStrings(S) ==
    IF S = {} THEN <<>>
    ELSE LET m == CHOOSE u \in S : \A v \in S \ {u} : StrLess(u, v)
         IN  <<m>> \o SortedStrings(S \ {m})

\* ''.join(s.split()): the string without its whitespace.
StripWhitespace(s) == SelectSeq(s, LAMBDA c : c # Space)

\* sep.join(parts)
RECURSIVE Join(_, _)
Join(parts, sep) ==
    IF parts = <<>> THEN <<>>
    ELSE IF Len(parts) = 1 THEN parts[1]
    ELSE parts[1] \o sep \o Join(Tail(parts), sep)

(***************************************************************************)
(* collections.Counter.  An insertion-ordered Counter is a list of records *)
(* [letter, count]; a Counter only read by key is a function, and a        *)
(* missing key reads 0.                                                    *)
(***************************************************************************)
CounterHas(c, x) == \E i \in DOMAIN c : c[i].letter = x

CounterAdd(c, x) ==
    IF CounterHas(c, x)
    THEN [i \in DOMAIN c |-> IF c[i].letter = x
                             THEN [c[i] EXCEPT !.count = c[i].count + 1]
                             ELSE c[i]]
    ELSE Append(c, [letter |-> x, count |-> 1])

\* Counter.update(string)
RECURSIVE CounterUpdate(_, _)
CounterUpdate(c, s) ==
    IF s = <<>> THEN c ELSE CounterUpdate(CounterAdd(c, s[1]), Tail(s))

\* Counter.most_common(): by count, highest first, equal counts in insertion order.
MostCommon(c) == StableSort(c, [i \in DOMAIN c |-> 0 - c[i].count])

\* Counter(string) read by key: letter -> number of occurrences.
CounterOf(s) == [x \in Range(s) |-> Cardinality({i \in DOMAIN s : s[i] = x})]

\* counter[letter]
Get(c, x) == IF x \in DOMAIN c THEN c[x] ELSE 0

(***************************************************************************)
(* The lexicon: load_words.  The readlex data is read as the list of its   *)
(* entries in file order, each [Shaw |-> word, pos |-> tag], a missing     *)
(* field being the empty string.                                           *)
(***************************************************************************)
\* Mutant of LoadEntry: the tag of an entry replaces the tags seen before.
LoadEntryOverwrite(lex, entry) ==
    IF entry.Shaw = <<>> THEN lex
    ELSE [shaw_words  |-> Append(lex.shaw_words, entry.Shaw),
          shaw_to_pos |-> [w \in DOMAIN lex.shaw_to_pos \cup {entry.Shaw} |->
                              IF w = entry.Shaw
                              THEN (IF entry.pos # "" THEN {entry.pos} ELSE {})
                              ELSE lex.shaw_to_pos[w]]]

\* One entry of the loop at lines 52-62 applied to (shaw_words, shaw_to_pos).
LoadEntry(lex, entry) ==
    IF entry.Shaw = <<>> THEN lex
    ELSE LET old == IF entry.Shaw \in DOMAIN lex.shaw_to_pos
                    THEN lex.shaw_to_pos[entry.Shaw] ELSE {}
             tags == IF entry.pos # "" THEN old \cup {entry.pos} ELSE old
         IN  [shaw_words  |-> Append(lex.shaw_words, entry.Shaw),
              shaw_to_pos |-> [w \in DOMAIN lex.shaw_to_pos \cup {entry.Shaw} |->
                                  IF w = entry.Shaw THEN tags ELSE lex.shaw_to_pos[w]]]

RECURSIVE LoadFrom(_, _)
LoadFrom(lex, entries) ==
    IF entries = <<>> THEN lex
    ELSE LoadFrom(LoadEntry(lex, entries[1]), Tail(entries))

load_words(data) == LoadFrom([shaw_words |-> <<>>, shaw_to_pos |-> <<>>], data)

(***************************************************************************)
(* build_trie.                                                             *)
(***************************************************************************)
\* The test of lines 87-97 on one word: not excluded by text, not excluded
\* by any accumulated tag, and spelled with target letters only.
PassesFilter(shaw, pos_of, target_set, exclude_words, exclude_pos) ==
    /\ shaw \notin exclude_words
    /\ ~ ( /\ exclude_pos # {}
           /\ (IF shaw \in DOMAIN pos_of THEN pos_of[shaw] ELSE {}) \cap exclude_pos # {} )
    /\ Range(shaw) \subseteq target_set

\* filtered_words of lines 85-97, in lexicon order, repeated entries kept.
FilteredWords(words, pos_of, target_set, exclude_words, exclude_pos) ==
    SelectSeq(words, LAMBDA w : PassesFilter(w, pos_of, target_set, exclude_words, exclude_pos))

\* letter_counts of lines 84-98: every filtered word counted letter by letter.
RECURSIVE LetterCounts(_, _)
LetterCounts(c, filtered) ==
    IF filtered = <<>> THEN c
    ELSE LetterCounts(CounterUpdate(c, filtered[1]), Tail(filtered))

\* letter_order of lines 101-102: most_common() reversed, rarest first.
LetterOrder(filtered) ==
    LET mc == MostCommon(LetterCounts(<<>>, filtered))
    IN  Reverse([i \in DOMAIN mc |-> mc[i].letter])

\* Mutant of Rank: the letter itself is the sort key, not its rarity.
RankByLetter(order, c) == c

\* The sort key of lines 111 and 149: the position in letter_order, or its
\* length for a letter that is not in it.
Rank(order, c) == IF c \in Range(order) THEN IndexOf(order, c) ELSE Len(order) + 1

\* Mutant of SortedKey: the word itself is the key (the sort left out).
UnsortedKey(shaw, order) == shaw

\* The rarity-sorted key of a word, line 111.
SortedKey(shaw, order) == StableSort(shaw, [i \in DOMAIN shaw |-> Rank(order, shaw[i])])

KeyOf(shaw, order) == SortedKey(shaw, order)

\* The keys of key_to_words_sets in insertion order (dict order of line 122).
RECURSIVE KeyList(_, _, _)
KeyList(filtered, order, acc) ==
    IF filtered = <<>> THEN acc
    ELSE LET k == KeyOf(filtered[1], order)
         IN  KeyList(Tail(filtered), order,
                     IF k \in Range(acc) THEN acc ELSE Append(acc, k))

\* The member list of one key, line 119: the distinct words of the key, sorted.
GroupOf(key, filtered, order) ==
    SortedStrings({w \in Range(filtered) : KeyOf(w, order) = key})

\* key_to_words of lines 108-119.
KeyToWords(filtered, order) ==
    [k \in Range(KeyList(filtered, order, <<>>)) |-> GroupOf(k, filtered, order)]

\* A fresh TrieNode(), lines 17-20.
TrieNode == [children |-> <<>>, is_word |-> FALSE, key |-> None]

\* The trie is a function from a node's path of letters (the root is <<>>) to
\* the node; children holds the keys of the node's children dict in dict order.
RECURSIVE AddFrom(_, _, _)
AddFrom(trie, key, i) ==
    LET node == SubSeq(key, 1, i - 1)
    IN  IF i > Len(key)
        THEN [trie EXCEPT ![node].is_word = TRUE, ![node].key = key]
        ELSE LET child == Append(node, key[i])
                 grown == IF key[i] \in Range(trie[node].children)
                          THEN trie
                          ELSE [n \in DOMAIN trie \cup {child} |->
                                   IF n = child THEN TrieNode
                                   ELSE IF n = node
                                        THEN [trie[n] EXCEPT !.children = Append(@, key[i])]
                                        ELSE trie[n]]
             IN  AddFrom(grown, key, i + 1)

\* _add_key_to_trie, lines 130-140.
AddKeyToTrie(trie, key) == AddFrom(trie, key, 1)

RECURSIVE AddKeys(_, _)
AddKeys(trie, keys) ==
    IF keys = <<>> THEN trie ELSE AddKeys(AddKeyToTrie(trie, keys[1]), Tail(keys))

\* The children of one node sorted by rarity, lines 148-150.
SortedChildren(children, order) ==
    StableSort(children, [i \in DOMAIN children |-> Rank(order, children[i])])

\* _sort_trie_children, lines 142-154: every node reached from the root.
SortTrieChildren(trie, order) ==
    [n \in DOMAIN trie |-> [trie[n] EXCEPT !.children = SortedChildren(@, order)]]

\* The trie of lines 69 and 121-126 for the given keys.
BuildTrie(keys, order) ==
    SortTrieChildren(AddKeys([n \in {<<>>} |-> TrieNode], keys), order)

\* Steps 3-5 of build_trie, lines 107-126, for a given letter order.
IndexFor(filtered, order) ==
    [letter_order |-> order,
     key_to_words |-> KeyToWords(filtered, order),
     trie         |-> BuildTrie(KeyList(filtered, order, <<>>), order)]

\* build_trie, lines 66-128: the index (letter_order, key_to_words, trie).
build_trie(words, pos_of, target_set, exclude_words, exclude_pos) ==
    LET filtered == FilteredWords(words, pos_of, target_set, exclude_words, exclude_pos)
    IN  IndexFor(filtered, LetterOrder(filtered))

\* Mutant of ResetTrie: line 69 left out, the trie of the earlier call kept.
KeepTrie(old) == old

\* Line 69: self.trie = TrieNode() replaces the trie the solver holds.
ResetTrie(old) == [n \in {<<>>} |-> TrieNode]

\* build_trie, lines 66-128, called on a solver that holds the trie old.
\* letter_order (line 101) and key_to_words (line 119) are assigned whole
\* from the filtered words; the keys are added to self.trie (lines 121-126)
\* as line 69 left it.
RebuildTrie(old, words, pos_of, target_set, exclude_words, exclude_pos) ==
    LET filtered == FilteredWords(words, pos_of, target_set, exclude_words, exclude_pos)
        order == LetterOrder(filtered)
    IN  [letter_order |-> order,
         key_to_words |-> KeyToWords(filtered, order),
         trie         |-> SortTrieChildren(
                              AddKeys(ResetTrie(old), KeyList(filtered, order, <<>>)),
                              order)]

\* The word-slot of lines 315-318.
FormatSlot(original_words) ==
    IF Len(original_words) = 1 THEN original_words[1]
    ELSE <<LBracket>> \o Join(original_words, <<Space, Slash, Space>>) \o <<RBracket>>

(***************************************************************************)
(* main: the --letters and --starter-words arguments, lines 403-426.       *)
(***************************************************************************)
\* Mutant of SubtractStarter: >= 0 written for > 0.
RECURSIVE SubtractStarterLate(_, _)
SubtractStarterLate(counter, starter) ==
    IF starter = <<>> THEN [ok |-> TRUE, counter |-> counter]
    ELSE IF \E i \in DOMAIN counter : counter[i].letter = starter[1] /\ counter[i].count >= 0
         THEN SubtractStarterLate(
                  [i \in DOMAIN counter |->
                      IF counter[i].letter = starter[1]
                      THEN [counter[i] EXCEPT !.count = counter[i].count - 1]
                      ELSE counter[i]],
                  Tail(starter))
         ELSE [ok |-> FALSE, counter |-> counter]

\* The loop of lines 418-423 over an insertion-ordered Counter: the counter
\* after the subtraction, or ok = FALSE at the first letter whose count is
\* not positive (sys.exit(1)).
RECURSIVE SubtractStarter(_, _)
SubtractStarter(counter, starter) ==
    IF starter = <<>> THEN [ok |-> TRUE, counter |-> counter]
    ELSE IF \E i \in DOMAIN counter : counter[i].letter = starter[1] /\ counter[i].count > 0
         THEN SubtractStarter(
                  [i \in DOMAIN counter |->
                      IF counter[i].letter = starter[1]
                      THEN [counter[i] EXCEPT !.count = counter[i].count - 1]
                      ELSE counter[i]],
                  Tail(starter))
         ELSE [ok |-> FALSE, counter |-> counter]

\* letter * count
Repeat(x, n) == [i \in 1..n |-> x]

\* Line 426: ''.join(letter * count for letter, count in items if count > 0).
RECURSIVE RebuildLetters(_)
RebuildLetters(counter) ==
    IF counter = <<>> THEN <<>>
    ELSE (IF counter[1].count > 0 THEN Repeat(counter[1].letter, counter[1].count) ELSE <<>>)
         \o RebuildLetters(Tail(counter))

\* Lines 404-407: a non-empty --letters argument loses its whitespace.
ParseLetters(letters) ==
    IF letters # None /\ letters[1] # <<>> THEN Some(StripWhitespace(letters[1])) ELSE letters

\* Lines 409-426: [ok, target_letters] for the parsed letters and the
\* --starter-words argument.
ApplyStarter(target, starter_arg) ==
    IF starter_arg # None /\ starter_arg[1] # <<>>
    THEN LET starter_words == StripWhitespace(starter_arg[1])
             letters == IF target = None THEN DefaultLetters ELSE target[1]
             sub == SubtractStarter(CounterUpdate(<<>>, letters), starter_words)
         IN  [ok |-> sub.ok,
              target_letters |-> IF sub.ok THEN Some(RebuildLetters(sub.counter))
                                           ELSE Some(letters)]
    ELSE [ok |-> TRUE, target_letters |-> target]

(***************************************************************************)
(* The inputs drawn.                                                       *)
(***************************************************************************)
Alphabet == {Peep, Tot, Kick}

\* The strings over S of length at most n.
StringsUpTo(S, n) == UNION {[1..k -> S] : k \in 0..n}

\* A string whose letters are in ascending order: one string per multiset.
Ascending(s) == \A i \in 1..(Len(s) - 1) : s[i] <= s[i + 1]

\* The --letters arguments: absent, or letters in ascending order, or (one
\* case) letters separated by whitespace.
LettersArgs ==
    {None} \cup {Some(s) : s \in {t \in StringsUpTo(Alphabet, MaxTargetLen) : Ascending(t)}}
           \cup {Some(<<Peep, Space, Tot>>)}

\* The --starter-words arguments: absent, or any string of letters and spaces.
StarterArgs == {None} \cup {Some(s) : s \in StringsUpTo(Alphabet \cup {Space}, MaxStarterLen)}

\* The --max arguments.
MaxArgs == {None} \cup {Some(k) : k \in 0..MaxCap}

\* The readlex files loaded: lists of entries.
E(shaw, pos) == [Shaw |-> shaw, pos |-> pos]

ReadlexFiles ==
    { \* the toy lexicon a, b, c, ab, bc
      << E(<<Peep>>, "n"), E(<<Tot>>, "n"), E(<<Kick>>, "n"),
         E(<<Peep, Tot>>, "v"), E(<<Tot, Kick>>, "v") >>,
      \* anagrams, a word entered twice with two tags, an entry without Shaw
      << E(<<Peep, Tot>>, "v"), E(<<Tot, Peep>>, "n"), E(<<Peep, Tot>>, "n"),
         E(<<>>, "n"), E(<<Kick>>, ""), E(<<Kick, Kick>>, "n") >>,
      \* two keys that start with the same letter
      << E(<<Tot>>, "n"), E(<<Peep>>, "v"), E(<<Peep, Tot>>, "n"), E(<<Peep, Peep>>, "") >>,
      \* a letter of the alphabet that no word uses
      << E(<<Peep>>, "n"), E(<<Peep, Tot>>, "v") >>,
      \* an empty file
      << >> }

ExcludeWordsArgs == {{}, {<<Peep, Tot>>}}
ExcludePosArgs == {{}, {"v"}}

(***************************************************************************)
(* The state.                                                              *)
(***************************************************************************)
VARIABLES
    readlex,         \* the entries of the file at PangramSolver.readlex_path
    shaw_words,      \* PangramSolver.shaw_words
    shaw_to_pos,     \* PangramSolver.shaw_to_pos
    trie,            \* PangramSolver.trie
    letter_order,    \* PangramSolver.letter_order
    key_to_words,    \* PangramSolver.key_to_words
    attempt_count,   \* PangramSolver.attempt_count
    branch_count,    \* PangramSolver.branch_count
    solution_count,  \* PangramSolver.solution_count
    args,            \* main: args.letters and args.starter_words, while main reads them
    target_letters,  \* the target_letters of main and of solve_pangram
    max_solutions,   \* solve_pangram's max_solutions
    exclude_words,   \* solve_pangram's exclude_words
    exclude_pos,     \* solve_pangram's exclude_pos
    remaining,       \* the Counter target_counter, which the search mutates
    current_words,   \* the list current_words
    current_letters, \* the lists current_letters of the active trie walks, innermost last
    solutions,       \* the list solutions
    stack,           \* the active calls of _search, _find_words_from_root, _search_trie
    pc,              \* where the program is
    held             \* the trie the solver held when solve_pangram was last called

vars == << readlex, shaw_words, shaw_to_pos, trie, letter_order, key_to_words, attempt_count,
           branch_count, solution_count, args, target_letters, max_solutions,
           exclude_words, exclude_pos, remaining, current_words, current_letters,
           solutions, stack, pc, held >>

solver_vars == << readlex, shaw_words, shaw_to_pos, trie, letter_order, key_to_words >>
counter_vars == << attempt_count, branch_count, solution_count >>
call_vars == << args, target_letters, max_solutions, exclude_words, exclude_pos >>

\* PangramSolver.__init__, lines 26-44, on the data of one readlex file.
Init ==
    \E data \in ReadlexFiles :
        /\ readlex = data
        /\ shaw_words = load_words(data).shaw_words
        /\ shaw_to_pos = load_words(data).shaw_to_pos
        /\ trie = [n \in {<<>>} |-> TrieNode]
        /\ letter_order = <<>>
        /\ key_to_words = <<>>
        /\ attempt_count = 0
        /\ branch_count = 0
        /\ solution_count = 0
        /\ args = None
        /\ target_letters = None
        /\ max_solutions = None
        /\ exclude_words = {}
        /\ exclude_pos = {}
        /\ remaining = <<>>
        /\ current_words = <<>>
        /\ current_letters = <<>>
        /\ solutions = <<>>
        /\ stack = <<>>
        /\ pc = "start"
        /\ held = trie

\* main, lines 403-426: the target letters after the starter words, or exit.
MainStarter ==
    /\ pc = "start"
    /\ \E letters \in LettersArgs, starter \in StarterArgs :
         LET r == ApplyStarter(ParseLetters(letters), starter)
         IN  /\ args' = Some([letters |-> letters, starter_words |-> starter])
             /\ target_letters' = r.target_letters
             /\ pc' = IF r.ok THEN "starter_done" ELSE "exit"
    /\ UNCHANGED << solver_vars, counter_vars, max_solutions, exclude_words, exclude_pos,
                    remaining, current_words, current_letters, solutions, stack, held >>

(***************************************************************************)
(* The search.  A frame of the stack is one active call: fn names the      *)
(* function, node is the trie node of a _search_trie call (its path), i    *)
(* the position of its loop over node.children, rarest the rarest_letter   *)
(* of a _find_words_from_root call, at the place the call has reached.     *)
(* e_remaining, e_words and e_letters record remaining, current_words and  *)
(* the current_letters lists as they were when the call was entered.       *)
(***************************************************************************)
Frame(fn, node, rem, words, letters) ==
    [fn |-> fn, at |-> "entry", node |-> node, i |-> 0, rarest |-> None,
     e_remaining |-> rem, e_words |-> words, e_letters |-> letters]

Top == stack[Len(stack)]
Running(fn, at) == pc = "search" /\ stack # <<>> /\ Top.fn = fn /\ Top.at = at

\* The stack with its top frame replaced by f, and then with g pushed.
SetTop(f) == [stack EXCEPT ![Len(stack)] = f]
SetTopAndCall(f, g) == Append(SetTop(f), g)

\* The innermost current_letters list, and the lists with it replaced.
Letters == current_letters[Len(current_letters)]
WithLetters(l) == [current_letters EXCEPT ![Len(current_letters)] = l]
ButLast(s) == SubSeq(s, 1, Len(s) - 1)

\* Mutant of Inc: the count is not given back.
IncForgotten(rem, letter) == rem

\* remaining[letter] -= 1
Dec(rem, letter) == [x \in DOMAIN rem \cup {letter} |-> Get(rem, x) - (IF x = letter THEN 1 ELSE 0)]

\* remaining[letter] += 1
Inc(rem, letter) == [x \in DOMAIN rem \cup {letter} |-> Get(rem, x) + (IF x = letter THEN 1 ELSE 0)]

\* Mutant of CapReached: > written for >=.
CapReachedLate(max, sols) == max # None /\ Len(sols) > max[1]

\* max_solutions is not None and len(solutions) >= max_solutions
CapReached(max, sols) == max # None /\ Len(sols) >= max[1]

\* Mutant of NoneRemaining: some count is zero (all() written for any()).
NoneRemainingSome(rem) == \E x \in DOMAIN rem : rem[x] = 0

\* not any(remaining.values()), line 229
NoneRemaining(rem) == \A x \in DOMAIN rem : rem[x] = 0

\* sum(remaining.values()), line 236
RECURSIVE SumOver(_, _)
SumOver(rem, S) ==
    IF S = {} THEN 0
    ELSE LET x == CHOOSE y \in S : TRUE IN rem[x] + SumOver(rem, S \ {x})

TotalRemaining(rem) == SumOver(rem, DOMAIN rem)

\* Lines 256-260: the first letter of letter_order with a positive count, or None.
RarestLetter(order, rem) ==
    IF \E i \in DOMAIN order : Get(rem, order[i]) > 0
    THEN Some(order[CHOOSE i \in DOMAIN order :
                       /\ Get(rem, order[i]) > 0
                       /\ \A j \in 1..(i - 1) : Get(rem, order[j]) <= 0])
    ELSE None

\* Mutant of InRootChildren: the membership test left out.
NoRootTest(t, rarest) == TRUE

\* Line 262: rarest_letter in self.trie.children.keys()
InRootChildren(t, rarest) == rarest # None /\ rarest[1] \in Range(t[<<>>].children)

\* Line 307: node.is_word and node.key
IsCompleteWord(t, node) == t[node].is_word /\ t[node].key # <<>>

\* Line 312: self.key_to_words.get(key, [])
OriginalWords(ktw, key) == IF key \in DOMAIN ktw THEN ktw[key] ELSE <<>>

\* solve_pangram, lines 156-201: the index is built, and either there is no
\* word (return []) or the counters are reset and _search is called.
EnterSolve(target, max, ew, ep) ==
    LET letters == IF target = None THEN DefaultLetters ELSE target[1]
        index == RebuildTrie(trie, shaw_words, shaw_to_pos, Range(letters), ew, ep)
    IN  /\ held' = trie
        /\ target_letters' = Some(letters)
        /\ max_solutions' = max
        /\ exclude_words' = ew
        /\ exclude_pos' = ep
        /\ args' = None
        /\ trie' = index.trie
        /\ letter_order' = index.letter_order
        /\ key_to_words' = index.key_to_words
        /\ solutions' = <<>>
        /\ current_words' = <<>>
        /\ current_letters' = <<>>
        /\ remaining' = CounterOf(letters)
        /\ IF index.trie[<<>>].children = <<>>
           THEN /\ pc' = "done"
                /\ stack' = <<>>
                /\ UNCHANGED counter_vars
           ELSE /\ pc' = "search"
                /\ attempt_count' = 0
                /\ branch_count' = 0
                /\ solution_count' = 0
                /\ stack' = << Frame("search", None, CounterOf(letters), <<>>, <<>>) >>
        /\ UNCHANGED << readlex, shaw_words, shaw_to_pos >>

\* main, lines 438-442: solve_pangram called with the target letters that
\* the starter words left.
SolvePangram ==
    /\ pc = "starter_done"
    /\ \E max \in MaxArgs, ew \in ExcludeWordsArgs, ep \in ExcludePosArgs :
         EnterSolve(target_letters, max, ew, ep)

\* The arguments of a later direct call of solve_pangram: the default
\* target, the empty one, a single letter and a pair of letters; no cap or a
\* cap of one; a word excluded or none.
AgainTargets == {None, Some(<<>>), Some(<<Kick>>), Some(<<Peep, Tot>>)}
AgainMax == {None, Some(1)}

\* solve_pangram (or solve_anagram, lines 329-334) called again on a solver
\* whose earlier call has returned.
SolveAgain ==
    /\ pc = "done"
    /\ \E target \in AgainTargets, max \in AgainMax, ew \in ExcludeWordsArgs :
         EnterSolve(target, max, ew, {})

\* _search, lines 224-241.
Search ==
    /\ Running("search", "entry")
    /\ IF CapReached(max_solutions, solutions)
       THEN /\ stack' = SetTop([Top EXCEPT !.at = "return"])
            /\ UNCHANGED << solutions, solution_count >>
       ELSE IF NoneRemaining(remaining)
       THEN /\ solutions' = Append(solutions, current_words)
            /\ solution_count' = solution_count + 1
            /\ stack' = SetTop([Top EXCEPT !.at = "return"])
       ELSE IF TotalRemaining(remaining) <= 0
       THEN /\ stack' = SetTop([Top EXCEPT !.at = "return"])
            /\ UNCHANGED << solutions, solution_count >>
       ELSE /\ stack' = SetTopAndCall([Top EXCEPT !.at = "return"],
                           Frame("root", None, remaining, current_words, current_letters))
            /\ UNCHANGED << solutions, solution_count >>
    /\ UNCHANGED << solver_vars, call_vars, attempt_count, branch_count, remaining,
                    current_words, current_letters, pc, held >>

\* _find_words_from_root, lines 255-265: up to the call of _search_trie.
FindWordsFromRoot ==
    /\ Running("root", "entry")
    /\ LET rarest_letter == RarestLetter(letter_order, remaining)
       IN  IF InRootChildren(trie, rarest_letter)
           THEN IF rarest_letter = None \/ <<rarest_letter[1]>> \notin DOMAIN trie
                THEN \* self.trie.children[rarest_letter] raises KeyError
                     /\ pc' = "raised"
                     /\ UNCHANGED << stack, remaining, current_letters >>
                ELSE /\ remaining' = Dec(remaining, rarest_letter[1])
                     /\ current_letters' = Append(current_letters, <<rarest_letter[1]>>)
                     /\ stack' = SetTopAndCall(
                                    [Top EXCEPT !.at = "restore", !.rarest = rarest_letter],
                                    Frame("trie", <<rarest_letter[1]>>, remaining',
                                          current_words, current_letters'))
                     /\ pc' = pc
           ELSE /\ stack' = SetTop([Top EXCEPT !.at = "return", !.rarest = rarest_letter])
                /\ UNCHANGED << remaining, current_letters, pc >>
    /\ UNCHANGED << solver_vars, call_vars, counter_vars, current_words, solutions, held >>

\* _find_words_from_root, line 266: after _search_trie has returned.
RestoreRoot ==
    /\ Running("root", "restore")
    /\ remaining' = Inc(remaining, Top.rarest[1])
    /\ current_letters' = ButLast(current_letters)
    /\ stack' = SetTop([Top EXCEPT !.at = "return"])
    /\ UNCHANGED << solver_vars, call_vars, counter_vars, current_words, solutions, pc, held >>

\* Mutant of NextChild: the test remaining[letter] > 0 of line 291 left out.
NextChildUnguarded(children, from, rem) ==
    IF from <= Len(children) THEN from ELSE 0

\* The loop header of line 290-291 resumed at position from: the next
\* position whose letter is still available, or 0 when the loop is over.
NextChild(children, from, rem) ==
    IF \E j \in from..Len(children) : Get(rem, children[j]) > 0
    THEN CHOOSE j \in from..Len(children) :
             /\ Get(rem, children[j]) > 0
             /\ \A k \in from..(j - 1) : Get(rem, children[k]) <= 0
    ELSE 0

\* _search_trie from the loop header at position from, lines 290-324, with
\* remaining = rem and the current_letters lists = lists: either the next
\* available child is entered (lines 292-296), or the loop is over and the
\* node's word, when it is one, is appended and _search called (307-324).
TrieLoop(from, rem, lists) ==
    LET node == Top.node
        children == trie[node].children
        j == NextChild(children, from, rem)
    IN  IF j # 0
        THEN /\ remaining' = Dec(rem, children[j])
             /\ current_letters' =
                    [lists EXCEPT ![Len(lists)] = Append(@, children[j])]
             /\ stack' = SetTopAndCall(
                            [Top EXCEPT !.at = "restore", !.i = j],
                            Frame("trie", Append(node, children[j]), remaining',
                                  current_words, current_letters'))
             /\ UNCHANGED << current_words, branch_count >>
        ELSE /\ remaining' = rem
             /\ current_letters' = lists
             /\ IF IsCompleteWord(trie, node)
                THEN LET original_words == OriginalWords(key_to_words, trie[node].key)
                     IN  /\ branch_count' = branch_count + 1
                         /\ IF original_words # <<>>
                            THEN /\ current_words' =
                                        Append(current_words, FormatSlot(original_words))
                                 /\ stack' = SetTopAndCall(
                                        [Top EXCEPT !.at = "pop"],
                                        Frame("search", None, rem, current_words', lists))
                            ELSE /\ stack' = SetTop([Top EXCEPT !.at = "return"])
                                 /\ UNCHANGED current_words
                ELSE /\ stack' = SetTop([Top EXCEPT !.at = "return"])
                     /\ UNCHANGED << current_words, branch_count >>

\* _search_trie, lines 282-296: the entry, up to its first call.
SearchTrie ==
    /\ Running("trie", "entry")
    /\ attempt_count' = attempt_count + 1
    /\ IF CapReached(max_solutions, solutions)
       THEN /\ stack' = SetTop([Top EXCEPT !.at = "return"])
            /\ UNCHANGED << remaining, current_letters, current_words, branch_count >>
       ELSE TrieLoop(1, remaining, current_letters)
    /\ UNCHANGED << solver_vars, call_vars, solution_count, solutions, pc, held >>

\* _search_trie, lines 298-304: after the call for a child has returned, and
\* on to the next call.
RestoreTrie ==
    /\ Running("trie", "restore")
    /\ LET letter == trie[Top.node].children[Top.i]
           rem == Inc(remaining, letter)
           lists == WithLetters(ButLast(Letters))
       IN  IF CapReached(max_solutions, solutions)
           THEN /\ remaining' = rem
                /\ current_letters' = lists
                /\ stack' = SetTop([Top EXCEPT !.at = "return"])
                /\ UNCHANGED << current_words, branch_count >>
           ELSE TrieLoop(Top.i + 1, rem, lists)
    /\ UNCHANGED << solver_vars, call_vars, attempt_count, solution_count, solutions, pc, held >>

\* _search_trie, line 327: after _search has returned.
PopWord ==
    /\ Running("trie", "pop")
    /\ current_words' = ButLast(current_words)
    /\ stack' = SetTop([Top EXCEPT !.at = "return"])
    /\ UNCHANGED << solver_vars, call_vars, counter_vars, remaining, current_letters,
                    solutions, pc, held >>

\* A call returns to its caller; the return of the outermost _search is
\* the return of solve_pangram (lines 201-210).
Return ==
    /\ pc = "search" /\ stack # <<>> /\ Top.at = "return"
    /\ stack' = ButLast(stack)
    /\ pc' = IF Len(stack) = 1 THEN "done" ELSE "search"
    /\ UNCHANGED << solver_vars, call_vars, counter_vars, remaining, current_words,
                    current_letters, solutions, held >>

(***************************************************************************)
(* The search run to its end without a result cap, as a function: the     *)
(* list of solutions _search appends, in order, when max_solutions is      *)
(* None.  SearchAll is _search (lines 229-241), RootAll is                *)
(* _find_words_from_root (255-266), TrieAll is _search_trie (290-327) and  *)
(* ChildrenAll its loop over node.children from position i.                *)
(***************************************************************************)
RECURSIVE SearchAll(_, _, _), TrieAll(_, _, _, _), ChildrenAll(_, _, _, _, _)
SearchAll(index, rem, words) ==
    IF NoneRemaining(rem) THEN << words >>
    ELSE IF TotalRemaining(rem) <= 0 THEN << >>
    ELSE LET rarest_letter == RarestLetter(index.letter_order, rem)
         IN  IF InRootChildren(index.trie, rarest_letter)
             THEN TrieAll(index, <<rarest_letter[1]>>, Dec(rem, rarest_letter[1]), words)
             ELSE << >>

TrieAll(index, node, rem, words) ==
    ChildrenAll(index, node, rem, words, 1)
    \o (IF IsCompleteWord(index.trie, node)
           /\ OriginalWords(index.key_to_words, index.trie[node].key) # <<>>
        THEN SearchAll(index, rem,
                 Append(words, FormatSlot(OriginalWords(index.key_to_words,
                                                        index.trie[node].key))))
        ELSE << >>)

ChildrenAll(index, node, rem, words, i) ==
    LET children == index.trie[node].children
    IN  IF i > Len(children) THEN << >>
        ELSE (IF Get(rem, children[i]) > 0
              THEN TrieAll(index, Append(node, children[i]), Dec(rem, children[i]), words)
              ELSE << >>)
             \o ChildrenAll(index, node, rem, words, i + 1)

\* solve_pangram with max_solutions = None for an index: [] when the trie is
\* empty (lines 183-185), and else what _search finds (lines 200-210).
SolveAll(index, letters) ==
    IF index.trie[<<>>].children = <<>> THEN << >>
    ELSE SearchAll(index, CounterOf(letters), << >>)

(***************************************************************************)
(* The search run to its end with max_solutions = max, as a function from  *)
(* the list solutions before a call to the list after it.  SearchFrom is   *)
(* _search (lines 225-241), TrieFrom is _search_trie (285-327) and         *)
(* ChildrenFrom its loop over node.children from position i (290-304).     *)
(***************************************************************************)
RECURSIVE SearchFrom(_, _, _, _, _), TrieFrom(_, _, _, _, _, _),
          ChildrenFrom(_, _, _, _, _, _, _)
SearchFrom(index, rem, words, sols, max) ==
    IF CapReached(max, sols) THEN sols
    ELSE IF NoneRemaining(rem) THEN Append(sols, words)
    ELSE IF TotalRemaining(rem) <= 0 THEN sols
    ELSE LET rarest_letter == RarestLetter(index.letter_order, rem)
         IN  IF InRootChildren(index.trie, rarest_letter)
             THEN TrieFrom(index, <<rarest_letter[1]>>, Dec(rem, rarest_letter[1]),
                           words, sols, max)
             ELSE sols

TrieFrom(index, node, rem, words, sols, max) ==
    IF CapReached(max, sols) THEN sols
    ELSE LET after == ChildrenFrom(index, node, rem, words, sols, max, 1)
         IN  IF after.stopped THEN after.sols
             ELSE IF IsCompleteWord(index.trie, node)
                     /\ OriginalWords(index.key_to_words, index.trie[node].key) # <<>>
             THEN SearchFrom(index, rem,
                      Append(words, FormatSlot(OriginalWords(index.key_to_words,
                                                             index.trie[node].key))),
                      after.sols, max)
             ELSE after.sols

\* stopped: the loop was left by the return of line 304.
ChildrenFrom(index, node, rem, words, sols, max, i) ==
    LET children == index.trie[node].children
    IN  IF i > Len(children) THEN [sols |-> sols, stopped |-> FALSE]
        ELSE IF Get(rem, children[i]) > 0
        THEN LET below == TrieFrom(index, Append(node, children[i]),
                                   Dec(rem, children[i]), words, sols, max)
             IN  IF CapReached(max, below) THEN [sols |-> below, stopped |-> TRUE]
                 ELSE ChildrenFrom(index, node, rem, words, below, max, i + 1)
        ELSE ChildrenFrom(index, node, rem, words, sols, max, i + 1)

\* solve_pangram on a solver just constructed from the readlex data: the
\* words are loaded (line 32), the index is built on the TrieNode() of line
\* 31, and the result is [] for an empty trie (lines 183-185) or what
\* _search leaves in solutions (lines 200-210).
FreshSolver(data, letters, max, ew, ep) ==
    LET lex == load_words(data)
        index == build_trie(lex.shaw_words, lex.shaw_to_pos, Range(letters), ew, ep)
    IN  [index |-> index,
         solutions |-> IF index.trie[<<>>].children = <<>> THEN << >>
                       ELSE SearchFrom(index, CounterOf(letters), << >>, << >>, max)]

Next ==
    \/ MainStarter
    \/ SolvePangram
    \/ Search
    \/ FindWordsFromRoot
    \/ RestoreRoot
    \/ SearchTrie
    \/ RestoreTrie
    \/ PopWord
    \/ Return

Spec == Init /\ [][Next]_vars

\* The solver used for one call after another.
NextReuse == Next \/ SolveAgain

SpecReuse == Init /\ [][NextReuse]_vars

(***************************************************************************)
(* Reading a result back: the words of a reported slot and the letters of  *)
(* a solution.                                                             *)
(***************************************************************************)
InCall == pc \in {"search", "done", "raised"}

\* The target string of the current call, and the filtered pool its index
\* was built from.
Target == target_letters[1]
Pool == FilteredWords(shaw_words, shaw_to_pos, Range(Target), exclude_words, exclude_pos)

\* text.split(' / ')
RECURSIVE SplitSlashes(_)
SplitSlashes(s) ==
    IF \E i \in 1..(Len(s) - 2) : SubSeq(s, i, i + 2) = <<Space, Slash, Space>>
    THEN LET i == CHOOSE k \in 1..(Len(s) - 2) :
                      /\ SubSeq(s, k, k + 2) = <<Space, Slash, Space>>
                      /\ \A j \in 1..(k - 1) : SubSeq(s, j, j + 2) # <<Space, Slash, Space>>
         IN  <<SubSeq(s, 1, i - 1)>> \o SplitSlashes(SubSeq(s, i + 3, Len(s)))
    ELSE <<s>>

\* The member words a slot reports: those between the brackets, or the slot.
SlotWords(slot) ==
    IF slot # <<>> /\ slot[1] = LBracket /\ slot[Len(slot)] = RBracket
    THEN SplitSlashes(SubSeq(slot, 2, Len(slot) - 1))
    ELSE <<slot>>

RECURSIVE Concat(_)
Concat(ws) == IF ws = <<>> THEN <<>> ELSE ws[1] \o Concat(Tail(ws))

\* The ways to take one member word from every slot of a solution.
Picks(sol) ==
    {p \in [DOMAIN sol -> UNION {Range(SlotWords(sol[j])) : j \in DOMAIN sol}] :
        \A j \in DOMAIN sol : p[j] \in Range(SlotWords(sol[j]))}

\* A slot that lists several anagrams.
Bracketed(slot) == Len(SlotWords(slot)) > 1

(***************************************************************************)
(* C1  Multiset exhaustion: in every solution recorded, the letters of its *)
(* slots, one member word taken from each slot in any way, are exactly the *)
(* target letters with their multiplicities.                               *)
(***************************************************************************)
MultisetExhaustion ==
    InCall =>
        \A n \in DOMAIN solutions :
            \A pick \in Picks(solutions[n]) :
                CounterOf(Concat(pick)) = CounterOf(Target)

\* A returned solution of two slots or more, one of them a bracketed group.
MultisetExhaustionWitness ==
    /\ pc = "done"
    /\ \E n \in DOMAIN solutions :
          /\ Len(solutions[n]) >= 2
          /\ \E j \in DOMAIN solutions[n] : Bracketed(solutions[n][j])

(***************************************************************************)
(* C4  Subset filtering: every word reported in a solution, every member   *)
(* of a bracketed group included, is spelled with target letters only, is  *)
(* not an excluded word, and no entry of the lexicon with its text has an  *)
(* excluded part-of-speech tag.                                            *)
(***************************************************************************)
SubsetFiltering ==
    InCall =>
        \A n \in DOMAIN solutions : \A j \in DOMAIN solutions[n] :
            \A w \in Range(SlotWords(solutions[n][j])) :
                /\ Range(w) \subseteq Range(Target)
                /\ w \notin exclude_words
                /\ \A e \in DOMAIN readlex :
                       readlex[e].Shaw = w => readlex[e].pos \notin exclude_pos

\* A call that returned a solution although the exclusions dropped a word
\* spelled with target letters: one by its text, or one by a tag that only
\* one of its entries has.
SubsetFilteringWitness ==
    /\ pc = "done"
    /\ solutions # <<>>
    /\ exclude_pos # {}
    /\ \E e1, e2 \in DOMAIN readlex :
          /\ readlex[e1].Shaw = readlex[e2].Shaw
          /\ Range(readlex[e1].Shaw) \subseteq Range(Target)
          /\ readlex[e1].Shaw # <<>>
          /\ readlex[e1].pos \in exclude_pos
          /\ readlex[e2].pos \notin exclude_pos

(***************************************************************************)
(* C5  Anagram grouping: two distinct words of the filtered pool are in    *)
(* the same group of key_to_words exactly when their rarity-sorted keys    *)
(* are equal, which is exactly when they have the same letters with the    *)
(* same multiplicities; every pool word is in a group, every group holds   *)
(* pool words only, each once, in ascending order, and a group of several  *)
(* words is reported as one slot listing exactly its members.              *)
(***************************************************************************)
SameGroup(w1, w2) ==
    \E k \in DOMAIN key_to_words :
        w1 \in Range(key_to_words[k]) /\ w2 \in Range(key_to_words[k])

AnagramGrouping ==
    InCall =>
        /\ \A w1, w2 \in Range(Pool) :
              w1 # w2 =>
                 /\ SameGroup(w1, w2) <=> KeyOf(w1, letter_order) = KeyOf(w2, letter_order)
                 /\ SameGroup(w1, w2) <=> CounterOf(w1) = CounterOf(w2)
        /\ \A w \in Range(Pool) : SameGroup(w, w)
        /\ \A k \in DOMAIN key_to_words :
              LET g == key_to_words[k]
              IN  /\ Range(g) \subseteq Range(Pool)
                  /\ g # <<>>
                  /\ \A i \in 1..(Len(g) - 1) : StrLess(g[i], g[i + 1])
                  /\ SlotWords(FormatSlot(g)) = g

\* An index with a group of two anagrams, one of them entered twice in the
\* lexicon, beside a word of another key.
AnagramGroupingWitness ==
    /\ InCall
    /\ \E k \in DOMAIN key_to_words : Len(key_to_words[k]) = 2
    /\ \E i, j \in DOMAIN Pool : i # j /\ Pool[i] = Pool[j]
    /\ Cardinality(DOMAIN key_to_words) >= 2

(***************************************************************************)
(* C2  Exhaustive enumeration: a run without cap on a non-empty target     *)
(* returns, each solution read as the multiset of the keys of its slots,   *)
(* exactly the partitions of the target letters into keys of the filtered  *)
(* pool, and each partition once.                                          *)
(***************************************************************************)
PoolKeys == {KeyOf(w, letter_order) : w \in Range(Pool)}

\* The multisets of pool keys whose letters together are the target's.
Partitions ==
    {CounterOf(q) : q \in {r \in StringsUpTo(PoolKeys, Len(Target)) :
                              CounterOf(Concat(r)) = CounterOf(Target)}}

\* A solution as the multiset of the keys of its slots.
SolutionKeys(sol) ==
    CounterOf([j \in DOMAIN sol |-> KeyOf(SlotWords(sol[j])[1], letter_order)])

ExhaustiveOnce ==
    (pc = "done" /\ max_solutions = None /\ Target # <<>>) =>
        /\ {SolutionKeys(solutions[n]) : n \in DOMAIN solutions} = Partitions
        /\ \A m, n \in DOMAIN solutions :
               m # n => SolutionKeys(solutions[m]) # SolutionKeys(solutions[n])

(***************************************************************************)
(* C3  The result cap is a prefix: a run with max_solutions = K returns    *)
(* the first min(K, N) solutions, in order, of the N solutions that the    *)
(* run without cap returns for the same lexicon, target and exclusions.    *)
(***************************************************************************)
\* What the run without cap returns for the arguments of the current call.
Uncapped ==
    SolveAll(build_trie(shaw_words, shaw_to_pos, Range(Target), exclude_words, exclude_pos),
             Target)

Min(a, b) == IF a <= b THEN a ELSE b

CapIsPrefix ==
    (pc = "done" /\ max_solutions # None) =>
        solutions = SubSeq(Uncapped, 1, Min(max_solutions[1], Len(Uncapped)))

\* A run stopped by its cap of one or two with more solutions left.
CapIsPrefixWitness ==
    /\ pc = "done"
    /\ max_solutions # None
    /\ max_solutions[1] >= 1
    /\ Len(solutions) = max_solutions[1]
    /\ Len(Uncapped) > max_solutions[1]

\* The run without cap of the stepped search is the function SolveAll.
UncappedIsSolveAll ==
    (pc = "done" /\ max_solutions = None) => solutions = Uncapped

(***************************************************************************)
(* C6  Starter-word subtraction: when the target letters cover the starter *)
(* letters with their multiplicities, main does not exit and the target it *)
(* passes on, and the search starts from, is the target less the starter   *)
(* letters; when they do not, main exits and no index has been built and   *)
(* no search has run.                                                      *)
(***************************************************************************)
\* The letters of the two arguments: whitespace is not a letter.
GivenTarget ==
    IF args[1].letters = None THEN DefaultLetters
    ELSE SelectSeq(args[1].letters[1], LAMBDA c : c # Space)

GivenStarter ==
    IF args[1].starter_words = None THEN <<>>
    ELSE SelectSeq(args[1].starter_words[1], LAMBDA c : c # Space)

Count(str, x) == Cardinality({i \in DOMAIN str : str[i] = x})

StarterCovered == \A x \in Range(GivenStarter) : Count(GivenStarter, x) <= Count(GivenTarget, x)

\* The letters solve_pangram works on for the argument target_letters.
Working == IF target_letters = None THEN DefaultLetters ELSE target_letters[1]

StarterState ==
    args # None =>
        /\ StarterCovered =>
              /\ pc = "starter_done"
              /\ \A x \in Range(GivenTarget) \cup Range(Working) :
                     Count(Working, x) = Count(GivenTarget, x) - Count(GivenStarter, x)
        /\ ~StarterCovered =>
              /\ pc = "exit"
              /\ trie = [n \in {<<>>} |-> TrieNode]
              /\ letter_order = <<>>
              /\ key_to_words = <<>>
              /\ stack = <<>>
              /\ attempt_count = 0

StarterSubtraction ==
    /\ []StarterState
    /\ [][(pc = "starter_done" /\ pc' # "starter_done") =>
             \A x \in Range(GivenTarget) \cup DOMAIN remaining' :
                 Get(remaining', x) = Count(GivenTarget, x) - Count(GivenStarter, x)]_vars
    /\ [][pc = "exit" => pc' = "exit"]_vars

\* Starter letters, written with whitespace, taken from a target that
\* covers them and has letters left.
StarterSubtractionWitness ==
    /\ pc = "starter_done"
    /\ args # None
    /\ GivenStarter # <<>>
    /\ Space \in Range(args[1].starter_words[1])
    /\ Working # <<>>
    /\ Len(Working) < Len(GivenTarget)

(***************************************************************************)
(* C7  An empty result is not an error: when some target letter occurs in  *)
(* no word of the filtered pool, no exception is raised and no solution is *)
(* recorded, so that solve_pangram returns the empty list.                 *)
(***************************************************************************)
UnusedTargetLetter == \E x \in Range(Target) : \A i \in DOMAIN Pool : x \notin Range(Pool[i])

EmptyResultNotError ==
    (InCall /\ UnusedTargetLetter) => (pc # "raised" /\ solutions = <<>>)

\* A call that returned after a search that accepted words of a pool
\* which lacks a target letter.
EmptyResultNotErrorWitness ==
    /\ pc = "done"
    /\ UnusedTargetLetter
    /\ Pool # <<>>
    /\ branch_count > 0

(***************************************************************************)
(* C8  Tie-break independence: whatever order is given to letters of equal *)
(* count, the run without cap finds the same solutions, each read as the   *)
(* multiset of its slots.                                                  *)
(***************************************************************************)
\* The rarity orders of a pool: its letters, each once, rarest first, the
\* letters of equal count in any order.
Occurrences(filtered, x) == Count(Concat(filtered), x)

TieOrders(filtered) ==
    LET letters == Range(Concat(filtered))
    IN  {o \in [1..Cardinality(letters) -> letters] :
           /\ \A i, j \in DOMAIN o : i # j => o[i] # o[j]
           /\ \A i \in 1..(Len(o) - 1) :
                  Occurrences(filtered, o[i]) <= Occurrences(filtered, o[i + 1])}

AsMultisets(sols) == {CounterOf(sols[n]) : n \in DOMAIN sols}

TieBreakIndependence ==
    (pc = "done" /\ max_solutions = None) =>
        \A o \in TieOrders(Pool) :
            AsMultisets(SolveAll(IndexFor(Pool, o), Target)) = AsMultisets(solutions)

\* A run that returned several solutions where another order of the tied
\* letters returns them in another order or with other slot orders.
TieBreakIndependenceWitness ==
    /\ pc = "done"
    /\ max_solutions = None
    /\ Len(solutions) >= 2
    /\ \E o \in TieOrders(Pool) :
          o # letter_order /\ SolveAll(IndexFor(Pool, o), Target) # solutions

(***************************************************************************)
(* C9  The rarest-letter choice is well defined: whenever                  *)
(* _find_words_from_root is entered (remaining is then not all zero), the  *)
(* scan of letter_order finds a letter with a positive remaining count.    *)
(***************************************************************************)
RarestLetterDefined ==
    Running("root", "entry") => RarestLetter(letter_order, remaining) # None

(***************************************************************************)
(* C10  Backtrack and restore: every call of _search,                      *)
(* _find_words_from_root and _search_trie returns with remaining,          *)
(* current_words and the current_letters lists as they were when it was    *)
(* entered, the returns taken at a reached cap included.                   *)
(***************************************************************************)
BacktrackRestore ==
    (pc = "search" /\ stack # <<>> /\ Top.at = "return") =>
        /\ remaining = Top.e_remaining
        /\ current_words = Top.e_words
        /\ current_letters = Top.e_letters

\* A _search_trie call returning from inside its loop because the cap was
\* reached below it, with children not yet visited.
BacktrackRestoreWitness ==
    /\ pc = "search" /\ stack # <<>>
    /\ Top.fn = "trie" /\ Top.at = "return"
    /\ Top.i > 0
    /\ max_solutions # None /\ max_solutions[1] >= 1
    /\ CapReached(max_solutions, solutions)
    /\ current_words # <<>>

(***************************************************************************)
(* C11  Remaining-count invariant: during a call every count of remaining  *)
(* is at least zero and at most the count of its letter in the target; a   *)
(* _search entered with all counts zero and the cap not reached appends    *)
(* the current path to the solutions, and nothing is appended to the       *)
(* solutions in a state where some count is not zero.                      *)
(***************************************************************************)
RemainingWithinTarget ==
    InCall =>
        \A x \in DOMAIN remaining \cup Range(Target) :
            0 <= Get(remaining, x) /\ Get(remaining, x) <= Count(Target, x)

RecordedAtZero ==
    /\ (Running("search", "entry") /\ NoneRemaining(remaining)
           /\ ~CapReached(max_solutions, solutions))
          => solutions' = Append(solutions, current_words)
    /\ (pc = "search" /\ solutions' # solutions)
          => /\ NoneRemaining(remaining)
             /\ Running("search", "entry")
             /\ solutions' = Append(solutions, current_words)

RemainingCountInvariant ==
    /\ []RemainingWithinTarget
    /\ [][RecordedAtZero]_vars

\* A _search entered with all counts zero below the cap, after another
\* solution was recorded, for a target with a letter that occurs twice.
RemainingCountInvariantWitness ==
    /\ Running("search", "entry")
    /\ NoneRemaining(remaining)
    /\ ~CapReached(max_solutions, solutions)
    /\ solutions # <<>>
    /\ Len(current_words) >= 2
    /\ \E x \in Range(Target) : Count(Target, x) >= 2

(***************************************************************************)
(* C12  Index freshness across calls: in every call made on a solver,      *)
(* whatever calls it served before, letter_order, key_to_words and the     *)
(* trie are those a solver just loaded from the same readlex data builds   *)
(* for the call's target letters and exclusions, and the call returns the  *)
(* solutions that solver returns, in the same order.                       *)
(***************************************************************************)
Fresh == FreshSolver(readlex, Target, max_solutions, exclude_words, exclude_pos)

IndexFreshness ==
    /\ InCall =>
          /\ letter_order = Fresh.index.letter_order
          /\ key_to_words = Fresh.index.key_to_words
          /\ trie = Fresh.index.trie
    /\ pc = "done" => solutions = Fresh.solutions

\* A call that returned solutions on a solver whose earlier call, made with
\* another target or other exclusions, had left a trie with a node that the
\* index of this call does not have, and a key whose letters this call
\* ranks in another order.
IndexFreshnessWitness ==
    /\ pc = "done"
    /\ solutions # <<>>
    /\ \E n \in DOMAIN held : n \notin DOMAIN trie
    /\ \E n \in DOMAIN held :
          /\ held[n].is_word
          /\ held[n].key \notin DOMAIN key_to_words
          /\ \E k \in DOMAIN key_to_words : CounterOf(k) = CounterOf(held[n].key)

(***************************************************************************)
(* C13  Per-run statistics: when a call of solve_pangram returns, whatever *)
(* calls the solver served before, solution_count is the number of         *)
(* solutions the call returned, and a call that found no indexable word,   *)
(* which walks no trie node and accepts no word, leaves attempt_count and  *)
(* branch_count at zero.                                                   *)
(***************************************************************************)
NoIndexableWords == trie[<<>>].children = <<>>

PerRunStatistics ==
    pc = "done" =>
        /\ solution_count = Len(solutions)
        /\ NoIndexableWords => (attempt_count = 0 /\ branch_count = 0)

====
